---- MODULE Spec2Model ----
(***************************************************************************)
(* The composite tree of src/composite.cpp: Graphic nodes (Dot, Circle,    *)
(* CompoundGraphic) on a heap, a CompoundGraphic root on the stack, and a  *)
(* caller that creates nodes with make_unique, keeps their raw pointers,   *)
(* and calls add, remove, move and draw.                                   *)
(*                                                                         *)
(* A pointer is an address.  Every node also carries gid, a history value  *)
(* that numbers the nodes in creation order: the code never reads it, it   *)
(* only lets a property tell two nodes apart that lived at one address.    *)
(*                                                                         *)
(* The module also holds the Singleton of src/singleton.cpp and the        *)
(* builders of src/builder.cpp.  The three programs share nothing: each    *)
(* has its own variables and its own specification, under which the        *)
(* variables of the other two stay at their initial values.                *)
(***************************************************************************)
EXTENDS Integers, Sequences, FiniteSets, TLC

\* Heap addresses the allocator can hand out: 1..NumAddrs.
NumAddrs == 2
\* Nodes the caller creates in one run.
MaxNodes == 3
\* Coordinates and move arguments range over 0..MaxCoord.
MaxCoord == 1
\* The radius the caller gives every Circle.
CircleRadius == 3
\* The address of the stack object `root`.
RootAddr == 0

Addr == 1..NumAddrs
Loc == Addr \cup {RootAddr}
Coord == 0..MaxCoord
\* Depth of nested calls the stack holds; deeper than any acyclic tree here.
StackLimit == MaxNodes + 3

VARIABLES
  heap,      \* Loc -> object at that address (kind "free" when none)
  owned,     \* addresses held by the caller's std::unique_ptr variables
  handles,   \* handles[g]: the raw pointer the caller kept for node g
  addOrder,  \* history: gids in the order they were passed to add
  removed,   \* history: gids of the nodes a remove call found and erased
  out,       \* what the latest call wrote to std::cout
  status,    \* "running", "crashed" or "done"
  last       \* the latest call, its arguments and what it returned

vars == <<heap, owned, handles, addOrder, removed, out, status, last>>

\* src/singleton.cpp
VARIABLES
  objs,      \* the Singleton objects constructed so far, by address 1, 2, ...
  mtx,       \* Singleton::mtx: the thread that holds it, 0 when free
  spc,       \* spc[t]: where thread t is
  sarg,      \* sarg[t]: the val of the Init thread t is in
  refs,      \* refs[t]: the references GetInstance has returned to thread t
  sref,      \* sref[t]: the reference thread t is calling GetValue through
  raced,     \* raced[t]: t's access to value overlapped another thread's write
  lastInit,  \* history: the val of the latest Init that has returned
  slast      \* the latest call that has returned, and what it returned

svars == <<objs, mtx, spc, sarg, refs, sref, raced, lastInit, slast>>

\* src/builder.cpp
VARIABLES
  bld,       \* bld[b]: the members of builder b (car, bike, or Game::Builder)
  director,  \* Director::builder: "none" (null), "car" or "bike"
  stepped,   \* history: stepped[b], the members a build step of b has set
             \* since b was constructed or last built
  passed,    \* history: the latest argument of each Game::Builder setter
  bstatus,   \* "running" or "crashed"
  blast      \* the latest call and the product it returned

bvars == <<bld, director, stepped, passed, bstatus, blast>>

\* The variables of the programs other than the one that takes a step.
NotComposite == <<svars, bvars>>
NotSingleton == <<vars, bvars>>
NotBuilder == <<vars, svars>>

Free == [kind |-> "free", gid |-> -1, x |-> 0, y |-> 0, radius |-> 0,
         children |-> <<>>]

\* Dot::Dot(int x, int y)
Dot(g, px, py) ==
  [kind |-> "Dot", gid |-> g, x |-> px, y |-> py, radius |-> 0,
   children |-> <<>>]

\* Circle::Circle(int x, int y, int radius) : Dot(x, y)
Circle(g, px, py, r) ==
  [kind |-> "Circle", gid |-> g, x |-> px, y |-> py, radius |-> r,
   children |-> <<>>]

\* CompoundGraphic::CompoundGraphic() = default: an empty children list
CompoundGraphic(g) ==
  [kind |-> "CompoundGraphic", gid |-> g, x |-> 0, y |-> 0, radius |-> 0,
   children |-> <<>>]

\* Leaf::Type and Compound::Type: which alternative of the variant is set
Type(o) == IF o.kind = "CompoundGraphic" THEN "Compound" ELSE "Leaf"

Live(hp, a) == hp[a].kind # "free"

IsCompound(hp, a) == Live(hp, a) /\ Type(hp[a]) = "Compound"

\* A call: op on the object at c with pointer argument h (the pointer of
\* node g) and integers px, py; res is what the caller gets back.
Call(op, c, h, g, px, py, res) ==
  [op |-> op, c |-> c, h |-> h, g |-> g, x |-> px, y |-> py, result |-> res]

Range(s) == {s[i] : i \in 1..Len(s)}

\* Every member function here returns void; a crashed call returns nothing.
Returned(st) == IF st = "crashed" THEN "none" ELSE "void"

----------------------------------------------------------------------------
(* std::list operations used by CompoundGraphic *)

\* A list that inserts at the front instead (not what the code does).
PushFront(cs, a) == <<a>> \o cs

\* children.push_back(std::move(child))
PushBack(cs, a) == Append(cs, a)

\* A comparison of the nodes' values instead of their addresses (not what
\* the code does).
MatchesByValue(hp, p, h) ==
  /\ hp[p].kind = hp[h].kind
  /\ hp[p].x = hp[h].x
  /\ hp[p].y = hp[h].y
  /\ hp[p].radius = hp[h].radius

\* it->get() == child
Matches(hp, p, h) == p = h

\* the for loop of remove: the first position whose pointer matches, or 0
FindChild(hp, cs, h) ==
  IF \E i \in 1..Len(cs) : Matches(hp, cs[i], h)
  THEN CHOOSE i \in 1..Len(cs) :
         /\ Matches(hp, cs[i], h)
         /\ \A j \in 1..(i - 1) : ~Matches(hp, cs[j], h)
  ELSE 0

\* children.erase(it), as far as the list goes
Erase(cs, i) == SubSeq(cs, 1, i - 1) \o SubSeq(cs, i + 1, Len(cs))

\* What the destructor of the node at address a destroys: the node and,
\* through ~Compound and the unique_ptr elements of children, everything
\* below it.
RECURSIVE Closure(_, _, _)
Closure(hp, frontier, seen) ==
  IF frontier = {} THEN seen
  ELSE LET next == UNION {Range(hp[a].children) : a \in frontier}
           done == seen \cup frontier
       IN  Closure(hp, next \ done, done)

Destroyed(hp, roots) == Closure(hp, roots, {})

Release(hp, D) == [a \in Loc |-> IF a \in D THEN Free ELSE hp[a]]

----------------------------------------------------------------------------
(* move and draw *)

\* Dot::move
MoveDot(o, px, py) == [o EXCEPT !.x = px, !.y = py]

\* Graphic::move through the vtable; fuel is the stack left.  The result is
\* the heap and whether the call returned.
RECURSIVE move(_, _, _, _, _)
RECURSIVE moveChildren(_, _, _, _, _)
move(hp, a, px, py, fuel) ==
  IF fuel = 0 THEN [heap |-> hp, ok |-> FALSE]
  ELSE IF Type(hp[a]) = "Compound"
       THEN moveChildren(hp, hp[a].children, px, py, fuel - 1)
       ELSE [heap |-> [hp EXCEPT ![a] = MoveDot(@, px, py)], ok |-> TRUE]
\* CompoundGraphic::move: for (auto& c : this->children) c->move(x, y)
moveChildren(hp, cs, px, py, fuel) ==
  IF cs = <<>> THEN [heap |-> hp, ok |-> TRUE]
  ELSE LET r == move(hp, Head(cs), px, py, fuel)
       IN  IF r.ok THEN moveChildren(r.heap, Tail(cs), px, py, fuel) ELSE r

\* The line Dot::draw and Circle::draw print (Circle prints no radius).
\* gid is not printed: it tags the line with the node that printed it.
Line(o) == [shape |-> o.kind, x |-> o.x, y |-> o.y, gid |-> o.gid]

RECURSIVE draw(_, _, _)
RECURSIVE drawChildren(_, _, _)
draw(hp, a, fuel) ==
  IF fuel = 0 THEN [out |-> <<>>, ok |-> FALSE]
  ELSE IF Type(hp[a]) = "Compound"
       THEN drawChildren(hp, hp[a].children, fuel - 1)
       ELSE [out |-> <<Line(hp[a])>>, ok |-> TRUE]
\* CompoundGraphic::draw: for (auto& c : this->children) c->draw()
drawChildren(hp, cs, fuel) ==
  IF cs = <<>> THEN [out |-> <<>>, ok |-> TRUE]
  ELSE LET r == draw(hp, Head(cs), fuel)
       IN  IF ~r.ok THEN r
           ELSE LET s == drawChildren(hp, Tail(cs), fuel)
                IN  [out |-> r.out \o s.out, ok |-> s.ok]

----------------------------------------------------------------------------
(* The caller's steps *)

Init ==
  /\ heap = [a \in Loc |-> IF a = RootAddr THEN CompoundGraphic(0) ELSE Free]
  /\ owned = {}
  /\ handles = <<>>
  /\ addOrder = <<>>
  /\ out = <<>>
  /\ status = "running"
  /\ removed = {}
  /\ last = Call("init", RootAddr, RootAddr, 0, 0, 0, "void")

\* auto d = std::make_unique<T>(...); T* raw_d = d.get();
\* The allocator may return any address that is free, one freed earlier
\* included.
MakeUnique(a, obj) ==
  /\ status = "running"
  /\ Len(handles) < MaxNodes
  /\ ~Live(heap, a)
  /\ heap' = [heap EXCEPT ![a] = obj]
  /\ owned' = owned \cup {a}
  /\ handles' = Append(handles, a)
  /\ out' = <<>>
  /\ last' = Call("make_unique", a, a, obj.gid, 0, 0, "pointer")
  /\ UNCHANGED <<addOrder, removed, status>>

MakeDot ==
  \E a \in Addr, px \in Coord, py \in Coord :
    MakeUnique(a, Dot(Len(handles) + 1, px, py))

MakeCircle ==
  \E a \in Addr, px \in Coord, py \in Coord :
    MakeUnique(a, Circle(Len(handles) + 1, px, py, CircleRadius))

MakeCompound ==
  \E a \in Addr : MakeUnique(a, CompoundGraphic(Len(handles) + 1))

\* c->add(std::move(d)): c is any live container the caller can name, the
\* root or one it created; d is a unique_ptr the caller still holds.
Add(c, a) ==
  /\ status = "running"
  /\ IsCompound(heap, c)
  /\ a \in owned
  /\ heap' = [heap EXCEPT ![c].children = PushBack(@, a)]
  /\ owned' = owned \ {a}
  /\ addOrder' = Append(addOrder, heap[a].gid)
  /\ out' = <<>>
  /\ last' = Call("add", c, a, heap[a].gid, 0, 0, "void")
  /\ UNCHANGED <<handles, removed, status>>

\* The heap after remove has erased position i of c's children: the
\* unique_ptr there deletes its node, whose destructor deletes what it owns.
AfterErase(hp, c, i) ==
  Release([hp EXCEPT ![c].children = Erase(@, i)],
          Destroyed(hp, {hp[c].children[i]}))

\* The raw pointer the caller kept for node g; node 0 is root (&root).
HandleOf(g) == IF g = 0 THEN RootAddr ELSE handles[g]

\* c->remove(h), where h is the pointer the caller kept for node g, whether
\* or not that node still exists.
Remove(c, g) ==
  /\ status = "running"
  /\ IsCompound(heap, c)
  /\ g \in 0..Len(handles)
  /\ LET h == HandleOf(g)
         i == FindChild(heap, heap[c].children, h)
     IN  /\ IF i = 0
            THEN UNCHANGED <<heap, status, removed>>
            ELSE /\ removed' = removed \cup {heap[heap[c].children[i]].gid}
                 /\ IF c \notin Destroyed(heap, {heap[c].children[i]})
                    THEN heap' = AfterErase(heap, c, i) /\ UNCHANGED status
                    ELSE \* The erased element's destructor reaches c and
                         \* destroys the list erase is still working on:
                         \* undefined behaviour.
                         \/ heap' = AfterErase(heap, c, i) /\ UNCHANGED status
                         \/ status' = "crashed" /\ UNCHANGED heap
         /\ last' = Call("remove", c, h, g, 0, 0, Returned(status'))
  /\ out' = <<>>
  /\ UNCHANGED <<owned, handles, addOrder>>

\* n->move(x, y) on any live node; recursion without end overflows the stack
Move(n, px, py) ==
  /\ status = "running"
  /\ Live(heap, n)
  /\ LET r == move(heap, n, px, py, StackLimit)
     IN  /\ heap' = r.heap
         /\ status' = IF r.ok THEN "running" ELSE "crashed"
  /\ out' = <<>>
  /\ last' = Call("move", n, n, heap[n].gid, px, py, Returned(status'))
  /\ UNCHANGED <<owned, handles, addOrder, removed>>

\* n->draw() on any live node
Draw(n) ==
  /\ status = "running"
  /\ Live(heap, n)
  /\ LET r == draw(heap, n, StackLimit)
     IN  /\ out' = r.out
         /\ status' = IF r.ok THEN "running" ELSE "crashed"
  /\ last' = Call("draw", n, n, heap[n].gid, 0, 0, Returned(status'))
  /\ UNCHANGED <<heap, owned, handles, addOrder, removed>>

\* return 0: the caller's unique_ptr variables and root go out of scope
Return ==
  /\ status = "running"
  /\ heap' = Release(heap, Destroyed(heap, owned \cup {RootAddr}))
  /\ owned' = {}
  /\ status' = "done"
  /\ out' = <<>>
  /\ last' = Call("return", RootAddr, RootAddr, 0, 0, 0, "void")
  /\ UNCHANGED <<handles, addOrder, removed>>

\* The steps of src/composite.cpp; the other programs' variables stay.
Next ==
  \/ MakeDot /\ UNCHANGED NotComposite
  \/ MakeCircle /\ UNCHANGED NotComposite
  \/ MakeCompound /\ UNCHANGED NotComposite
  \/ \E c \in Loc, a \in Addr : Add(c, a) /\ UNCHANGED NotComposite
  \/ \E c \in Loc, g \in 0..MaxNodes : Remove(c, g) /\ UNCHANGED NotComposite
  \/ \E n \in Loc, px \in Coord, py \in Coord :
       Move(n, px, py) /\ UNCHANGED NotComposite
  \/ \E n \in Loc : Draw(n) /\ UNCHANGED NotComposite
  \/ Return /\ UNCHANGED NotComposite

----------------------------------------------------------------------------
(* src/singleton.cpp *)

\* Threads of the concurrent specification.
NumThreads == 2
Threads == 1..NumThreads

\* The strings passed to Init; main passes "foo".
Values == {"foo", "bar"}
\* std::string value of a default-constructed Singleton
EmptyString == ""
\* What a read that races with a write may also return.
Torn == "torn"
NoInit == "no Init yet"

SCall(op, t, r, res) == [op |-> op, t |-> t, ref |-> r, result |-> res]

\* explicit Singleton() = default
Singleton == [value |-> EmptyString]

SingletonStart ==
  /\ objs = <<>>
  /\ mtx = 0
  /\ spc = [t \in Threads |-> "idle"]
  /\ sarg = [t \in Threads |-> EmptyString]
  /\ refs = [t \in Threads |-> {}]
  /\ sref = [t \in Threads |-> 0]
  /\ raced = [t \in Threads |-> FALSE]
  /\ lastInit = NoInit
  /\ slast = SCall("start", 0, 0, "void")

\* A GetInstance that constructs a second object (not what the code does).
SecondInstance(os) == IF os = <<>> THEN 1 ELSE 2

\* static Singleton instance; return instance;  The address returned: the
\* one function-local static, constructed by the first call.
InstanceAddr(os) == 1

\* The objects after a GetInstance call that returned address a.
Constructed(os, a) == IF a <= Len(os) THEN os ELSE Append(os, Singleton)

\* Another thread is between the start and the end of its write to value.
WriterOtherThan(t) == \E u \in Threads \ {t} : spc[u] = "writing"

\* Another thread is between the start and the end of an access to value.
AccessOtherThan(t) ==
  \E u \in Threads \ {t} : spc[u] \in {"writing", "reading"}

\* Singleton& s = Singleton::GetInstance(), called by the program
GetInstance(t) ==
  /\ spc[t] = "idle"
  /\ LET a == InstanceAddr(objs)
     IN  /\ objs' = Constructed(objs, a)
         /\ refs' = [refs EXCEPT ![t] = @ \cup {a}]
         /\ slast' = SCall("GetInstance", t, a, "reference")
  /\ UNCHANGED <<mtx, spc, sarg, sref, raced, lastInit>>

\* Singleton::Init(val) is called
InitCall(t, v) ==
  /\ spc[t] = "idle"
  /\ spc' = [spc EXCEPT ![t] = "lock"]
  /\ sarg' = [sarg EXCEPT ![t] = v]
  /\ UNCHANGED <<objs, mtx, refs, sref, raced, lastInit, slast>>

\* std::lock_guard<std::mutex> lock(mtx)
InitLock(t) ==
  /\ spc[t] = "lock"
  /\ mtx = 0
  /\ mtx' = t
  /\ spc' = [spc EXCEPT ![t] = "getinstance"]
  /\ UNCHANGED <<objs, sarg, refs, sref, raced, lastInit, slast>>

\* Singleton& s = GetInstance(), inside Init
InitGetInstance(t) ==
  /\ spc[t] = "getinstance"
  /\ LET a == InstanceAddr(objs)
     IN  /\ objs' = Constructed(objs, a)
         /\ sref' = [sref EXCEPT ![t] = a]
  /\ spc' = [spc EXCEPT ![t] = "write"]
  /\ UNCHANGED <<mtx, sarg, refs, raced, lastInit, slast>>

\* s.value = val: the assignment starts
InitWriteBegin(t) ==
  /\ spc[t] = "write"
  /\ spc' = [spc EXCEPT ![t] = "writing"]
  /\ raced' = [u \in Threads |->
                IF u # t /\ spc[u] = "reading" THEN TRUE ELSE raced[u]]
  /\ UNCHANGED <<objs, mtx, sarg, refs, sref, lastInit, slast>>

\* s.value = val: the assignment ends
InitWriteEnd(t) ==
  /\ spc[t] = "writing"
  /\ objs' = [objs EXCEPT ![sref[t]].value = sarg[t]]
  /\ spc' = [spc EXCEPT ![t] = "unlock"]
  /\ UNCHANGED <<mtx, sarg, refs, sref, raced, lastInit, slast>>

\* the lock_guard's destructor, and Init returns
InitReturn(t) ==
  /\ spc[t] = "unlock"
  /\ mtx' = 0
  /\ spc' = [spc EXCEPT ![t] = "idle"]
  /\ lastInit' = sarg[t]
  /\ slast' = SCall("Init", t, sref[t], "void")
  /\ UNCHANGED <<objs, sarg, refs, sref, raced>>

\* r.GetValue() is called through a reference the thread holds: the copy
\* of this->value starts.  No lock is taken.
GetValueBegin(t, r) ==
  /\ spc[t] = "idle"
  /\ r \in refs[t]
  /\ sref' = [sref EXCEPT ![t] = r]
  /\ spc' = [spc EXCEPT ![t] = "reading"]
  /\ raced' = [raced EXCEPT ![t] = WriterOtherThan(t)]
  /\ UNCHANGED <<objs, mtx, sarg, refs, lastInit, slast>>

\* return this->value: the copy ends.  A copy that overlapped a write is a
\* data race, and may hold anything.
GetValueReturn(t) ==
  /\ spc[t] = "reading"
  /\ \E res \in (IF raced[t] THEN Values \cup {EmptyString, Torn}
                  ELSE {objs[sref[t]].value}) :
       slast' = SCall("GetValue", t, sref[t], res)
  /\ spc' = [spc EXCEPT ![t] = "idle"]
  /\ raced' = [raced EXCEPT ![t] = FALSE]
  /\ UNCHANGED <<objs, mtx, sarg, refs, sref, lastInit>>

\* The steps of the threads in T; the other programs' variables stay.
SingletonNext(T) ==
  \/ \E t \in T : GetInstance(t) /\ UNCHANGED NotSingleton
  \/ \E t \in T, v \in Values : InitCall(t, v) /\ UNCHANGED NotSingleton
  \/ \E t \in T : InitLock(t) /\ UNCHANGED NotSingleton
  \/ \E t \in T : InitGetInstance(t) /\ UNCHANGED NotSingleton
  \/ \E t \in T : InitWriteBegin(t) /\ UNCHANGED NotSingleton
  \/ \E t \in T : InitWriteEnd(t) /\ UNCHANGED NotSingleton
  \/ \E t \in T : InitReturn(t) /\ UNCHANGED NotSingleton
  \/ \E t \in T : \E r \in refs[t] : GetValueBegin(t, r) /\ UNCHANGED NotSingleton
  \/ \E t \in T : GetValueReturn(t) /\ UNCHANGED NotSingleton

\* src/singleton.cpp called from one thread, as main does
SingletonNextMain == SingletonNext({1})

\* src/singleton.cpp called from NumThreads threads
SingletonNextMT == SingletonNext(Threads)

----------------------------------------------------------------------------
(* src/builder.cpp *)

\* enum class Color, in declaration order: Colors[1] has the value 0.
Colors == <<"Red", "Green", "Blue", "White", "Black">>

\* The values the vehicle builders' steps assign.
CarSeats == 5
CarTires == 4
BikeSeats == 1
BikeTires == 2

\* The arguments of set_window_width and set_window_height; main passes
\* 200 and 100.
Sizes == {100, 200}

Vehicles == {"car", "bike"}
Builders == Vehicles \cup {"game"}

NoProduct == "none"
BCall(op, b, product) == [op |-> op, b |-> b, product |-> product]

\* Car{} and Bike{}: every member value-initialised, the Color to the
\* enumerator with the value 0.
ValueInit(b) == [seats |-> 0, tires |-> 0, color |-> Colors[1]]

\* A Reset that leaves the members as they are (not what the code does).
NoReset(b) == bld[b]

\* CarBuilder::Reset, BikeBuilder::Reset
Reset(b) == ValueInit(b)

\* Game::Builder::reset: each member = {}
reset == [window_width |-> 0, window_height |-> 0, game_ended |-> FALSE]

\* Game(window_width, window_height, game_ended)
Game(w, h, e) == [window_width |-> w, window_height |-> h, game_ended |-> e]

Seats(b) == IF b = "car" THEN CarSeats ELSE BikeSeats
Tires(b) == IF b = "car" THEN CarTires ELSE BikeTires

\* this->car.seats = 5 / this->bike.seats = 1
SetSeats(v, b) == [v EXCEPT !.seats = Seats(b)]
\* this->car.tires = 4 / this->bike.tires = 2
SetTires(v, b) == [v EXCEPT !.tires = Tires(b)]
\* this->car.color = Color::Red / this->bike.color = Color::Red
SetColor(v, b) == [v EXCEPT !.color = "Red"]

\* The builders as their constructors leave them (each calls its reset:
\* Car{}, Bike{}, and {} for each member of Game::Builder), and a Director
\* whose builder is a null shared_ptr.
BuilderStart ==
  /\ bld = [b \in Builders |-> IF b = "game" THEN reset ELSE ValueInit(b)]
  /\ director = "none"
  /\ stepped = [b \in Builders |-> {}]
  /\ passed = reset
  /\ bstatus = "running"
  /\ blast = BCall("start", "none", NoProduct)

BuildSeats(b) ==
  /\ bstatus = "running"
  /\ bld' = [bld EXCEPT ![b] = SetSeats(@, b)]
  /\ stepped' = [stepped EXCEPT ![b] = @ \cup {"seats"}]
  /\ blast' = BCall("BuildSeats", b, NoProduct)
  /\ UNCHANGED <<director, passed, bstatus>>

BuildTires(b) ==
  /\ bstatus = "running"
  /\ bld' = [bld EXCEPT ![b] = SetTires(@, b)]
  /\ stepped' = [stepped EXCEPT ![b] = @ \cup {"tires"}]
  /\ blast' = BCall("BuildTires", b, NoProduct)
  /\ UNCHANGED <<director, passed, bstatus>>

BuildColor(b) ==
  /\ bstatus = "running"
  /\ bld' = [bld EXCEPT ![b] = SetColor(@, b)]
  /\ stepped' = [stepped EXCEPT ![b] = @ \cup {"color"}]
  /\ blast' = BCall("BuildColor", b, NoProduct)
  /\ UNCHANGED <<director, passed, bstatus>>

\* CarBuilder::Build, BikeBuilder::Build:
\* result = std::move(this->car); this->Reset(); return result
Build(b) ==
  /\ bstatus = "running"
  /\ LET result == bld[b]
     IN  /\ bld' = [bld EXCEPT ![b] = Reset(b)]
         /\ blast' = BCall("Build", b, result)
  /\ stepped' = [stepped EXCEPT ![b] = {}]
  /\ UNCHANGED <<director, passed, bstatus>>

\* Director::BuildBuilder(builder): the Director shares the caller's builder
BuildBuilder(b) ==
  /\ bstatus = "running"
  /\ director' = b
  /\ blast' = BCall("BuildBuilder", b, NoProduct)
  /\ UNCHANGED <<bld, stepped, passed, bstatus>>

\* A call through the Director's null builder: undefined behaviour.  The
\* program stops there, or the call returns with nothing done.
NullBuilderCall(op) ==
  /\ director = "none"
  /\ bstatus' \in {"crashed", "running"}
  /\ blast' = BCall(op, "none", NoProduct)
  /\ UNCHANGED <<bld, director, stepped, passed>>

\* Director::BuildMinimalViableProduct: BuildSeats(); BuildTires()
BuildMinimalViableProduct ==
  /\ bstatus = "running"
  /\ \/ /\ director \in Vehicles
        /\ bld' = [bld EXCEPT ![director] = SetTires(SetSeats(@, director),
                                                     director)]
        /\ stepped' = [stepped EXCEPT ![director] = @ \cup {"seats", "tires"}]
        /\ blast' = BCall("BuildMinimalViableProduct", director, NoProduct)
        /\ UNCHANGED <<director, passed, bstatus>>
     \/ NullBuilderCall("BuildMinimalViableProduct")

\* Director::BuildFullFeaturedProduct: BuildSeats(); BuildTires();
\* BuildColor()
BuildFullFeaturedProduct ==
  /\ bstatus = "running"
  /\ \/ /\ director \in Vehicles
        /\ bld' = [bld EXCEPT ![director] =
                     SetColor(SetTires(SetSeats(@, director), director),
                              director)]
        /\ stepped' = [stepped EXCEPT
                         ![director] = @ \cup {"seats", "tires", "color"}]
        /\ blast' = BCall("BuildFullFeaturedProduct", director, NoProduct)
        /\ UNCHANGED <<director, passed, bstatus>>
     \/ NullBuilderCall("BuildFullFeaturedProduct")

\* Game::Builder::set_window_width
set_window_width(w) ==
  /\ bstatus = "running"
  /\ bld' = [bld EXCEPT !["game"].window_width = w]
  /\ stepped' = [stepped EXCEPT !["game"] = @ \cup {"window_width"}]
  /\ passed' = [passed EXCEPT !.window_width = w]
  /\ blast' = BCall("set_window_width", "game", NoProduct)
  /\ UNCHANGED <<director, bstatus>>

\* Game::Builder::set_window_height
set_window_height(h) ==
  /\ bstatus = "running"
  /\ bld' = [bld EXCEPT !["game"].window_height = h]
  /\ stepped' = [stepped EXCEPT !["game"] = @ \cup {"window_height"}]
  /\ passed' = [passed EXCEPT !.window_height = h]
  /\ blast' = BCall("set_window_height", "game", NoProduct)
  /\ UNCHANGED <<director, bstatus>>

\* Game::Builder::set_game_ended
set_game_ended(e) ==
  /\ bstatus = "running"
  /\ bld' = [bld EXCEPT !["game"].game_ended = e]
  /\ stepped' = [stepped EXCEPT !["game"] = @ \cup {"game_ended"}]
  /\ passed' = [passed EXCEPT !.game_ended = e]
  /\ blast' = BCall("set_game_ended", "game", NoProduct)
  /\ UNCHANGED <<director, bstatus>>

\* Game::Builder::build:
\* Game g = Game(window_width, window_height, game_ended); reset(); return g
build ==
  /\ bstatus = "running"
  /\ LET g == Game(bld["game"].window_width, bld["game"].window_height,
                   bld["game"].game_ended)
     IN  /\ bld' = [bld EXCEPT !["game"] = reset]
         /\ blast' = BCall("build", "game", g)
  /\ stepped' = [stepped EXCEPT !["game"] = {}]
  /\ UNCHANGED <<director, passed, bstatus>>

\* The steps of src/builder.cpp; the other programs' variables stay.
BuilderNext ==
  \/ \E b \in Vehicles : BuildSeats(b) /\ UNCHANGED NotBuilder
  \/ \E b \in Vehicles : BuildTires(b) /\ UNCHANGED NotBuilder
  \/ \E b \in Vehicles : BuildColor(b) /\ UNCHANGED NotBuilder
  \/ \E b \in Vehicles : Build(b) /\ UNCHANGED NotBuilder
  \/ \E b \in Vehicles : BuildBuilder(b) /\ UNCHANGED NotBuilder
  \/ BuildMinimalViableProduct /\ UNCHANGED NotBuilder
  \/ BuildFullFeaturedProduct /\ UNCHANGED NotBuilder
  \/ \E w \in Sizes : set_window_width(w) /\ UNCHANGED NotBuilder
  \/ \E h \in Sizes : set_window_height(h) /\ UNCHANGED NotBuilder
  \/ \E e \in BOOLEAN : set_game_ended(e) /\ UNCHANGED NotBuilder
  \/ build /\ UNCHANGED NotBuilder

----------------------------------------------------------------------------
(* The specifications *)

allvars == <<vars, svars, bvars>>

\* Every program at its start.
Start == Init /\ SingletonStart /\ BuilderStart

\* src/composite.cpp
Spec == Start /\ [][Next]_allvars

\* src/singleton.cpp, called from one thread as main does
SpecSingleton == Start /\ [][SingletonNextMain]_allvars

\* src/singleton.cpp, called from NumThreads threads
SpecSingletonMT == Start /\ [][SingletonNextMT]_allvars

\* src/builder.cpp
SpecBuilder == Start /\ [][BuilderNext]_allvars

----------------------------------------------------------------------------
(* Vocabulary of the properties *)

Created == 1..Len(handles)

\* Node g exists: its object is still at the address it was created at.
NodeAlive(hp, g) == g = 0 \/ (g \in Created /\ hp[handles[g]].gid = g)

Children(hp, c) == hp[c].children

\* The slots <<c, i>> of live containers that hold a pointer to address a.
OwnerSlots(hp, a) ==
  {sl \in Loc \X (1..MaxNodes) :
     /\ IsCompound(hp, sl[1])
     /\ sl[2] <= Len(Children(hp, sl[1]))
     /\ Children(hp, sl[1])[sl[2]] = a}

\* The same node with the same field values.
SameNode(o, q) ==
  /\ o.gid = q.gid
  /\ o.kind = q.kind
  /\ o.x = q.x
  /\ o.y = q.y
  /\ o.radius = q.radius

\* The addresses strictly below a.
Below(hp, a) == Destroyed(hp, Range(Children(hp, a)))

\* Position of node g in the order of the add calls.
AddIndex(g) == CHOOSE i \in 1..Len(addOrder) : addOrder[i] = g

\* The members of S as a sequence, in the order in which they were added.
RECURSIVE ByAddOrder(_, _)
ByAddOrder(hp, S) ==
  IF S = {} THEN <<>>
  ELSE LET a == CHOOSE b \in S :
                  \A d \in S : AddIndex(hp[b].gid) <= AddIndex(hp[d].gid)
       IN  <<a>> \o ByAddOrder(hp, S \ {a})

\* The lines of everything below a, children taken in the order of their
\* add calls, depth first.
RECURSIVE LinesInAddOrder(_, _)
RECURSIVE LinesOfAll(_, _)
LinesInAddOrder(hp, a) ==
  IF Type(hp[a]) = "Leaf" THEN <<Line(hp[a])>>
  ELSE LinesOfAll(hp, ByAddOrder(hp, Range(Children(hp, a))))
LinesOfAll(hp, cs) ==
  IF cs = <<>> THEN <<>>
  ELSE LinesInAddOrder(hp, Head(cs)) \o LinesOfAll(hp, Tail(cs))

----------------------------------------------------------------------------
(* The claims *)

\* Supports C1: whenever draw returns, what it wrote is in the order of the
\* add calls; C1 fails only where draw does not return.
DrawInAddOrderWhenReturned ==
  (last.op = "draw" /\ status = "running") =>
    out = LinesInAddOrder(heap, last.c)

\* C1: draw on any container the caller has built returns, and what it
\* wrote is the lines of the container's current children in the order in
\* which they were added, depth first at every depth (nothing for a
\* container without children).
C1_DrawInAddOrder ==
  (last.op = "draw" /\ IsCompound(heap, last.c)) =>
    (status = "running" /\ out = LinesInAddOrder(heap, last.c))

\* C2: move(C, dx, dy) leaves every leaf below container C at its old
\* position plus (dx, dy), and every other node where it was.
C2_MoveTranslates ==
  [][(last'.op = "move" /\ IsCompound(heap, last'.c)) =>
       \A a \in Loc :
         (Live(heap, a) /\ Type(heap[a]) = "Leaf") =>
           IF a \in Below(heap, last'.c)
           THEN /\ heap'[a].x = heap[a].x + last'.x
                /\ heap'[a].y = heap[a].y + last'.y
           ELSE heap'[a] = heap[a]]_vars

\* C3: when remove(h) on a container that holds h as a direct child has
\* returned, exactly that entry is gone from the container's children, and
\* the other children, equal-valued ones included, are the nodes they were,
\* in place and in order.
C3_RemoveExactlyOne ==
  [][(/\ last'.op = "remove"
      /\ last'.h \in Range(Children(heap, last'.c))
      /\ status' = "running") =>
       LET c == last'.c
           i == CHOOSE k \in 1..Len(Children(heap, c)) :
                  Children(heap, c)[k] = last'.h
       IN  /\ Children(heap', c) = Erase(Children(heap, c), i)
           /\ \A a \in Range(Children(heap, c)) \ {last'.h} :
                SameNode(heap'[a], heap[a])]_vars

\* Supports C3: the same holds of every remove whose receiver is not below
\* the node it removes, and such a remove always returns.
RemoveExactlyOneOffCycle ==
  [][(/\ last'.op = "remove"
      /\ last'.h \in Range(Children(heap, last'.c))
      /\ last'.c \notin Destroyed(heap, {last'.h})) =>
       LET c == last'.c
           i == FindChild(heap, Children(heap, c), last'.h)
       IN  /\ status' = "running"
           /\ Children(heap', c) = Erase(Children(heap, c), i)
           /\ \A a \in Range(Children(heap, c)) \ {last'.h} :
                SameNode(heap'[a], heap[a])]_vars

\* C4: remove(h) on a container none of whose direct children is at h
\* changes nothing and returns normally; and after any remove(h) the
\* container has no direct child at h, so a second remove(h) is that case.
C4_RemoveAbsentIsNoOp ==
  [][last'.op = "remove" =>
       /\ last'.h \notin Range(Children(heap, last'.c)) =>
            /\ heap' = heap
            /\ owned' = owned
            /\ status' = "running"
            /\ last'.result = "void"
       /\ status' = "running" =>
            last'.h \notin Range(Children(heap', last'.c))]_vars

\* C4, reached: a remove whose handle names a live node that sits in a
\* sub-container of the receiver, not in the receiver itself.
C4_Witness ==
  /\ last.op = "remove"
  /\ status = "running"
  /\ Live(heap, last.h)
  /\ last.h \notin Range(Children(heap, last.c))
  /\ \E s \in Range(Children(heap, last.c)) :
       last.h \in Range(Children(heap, s))

\* C5: once a remove has taken out the node a handle was kept for, a
\* further remove with that handle takes no node out of any container,
\* whatever was added in between.
C5_StaleHandleRemovesNothing ==
  [][(last'.op = "remove" /\ last'.g \in removed) => heap' = heap]_vars

\* C6: the structure is a tree: every node is in at most one slot of at
\* most one container, and no container is below itself.
C6_IsTree ==
  \A a \in Loc :
    Live(heap, a) =>
      /\ Cardinality(OwnerSlots(heap, a)) <= 1
      /\ a \notin Below(heap, a)

\* C7: add(child) where child is the receiver or has the receiver below it
\* reports CycleDetected and leaves every object as it was.
C7_CyclicAddRejected ==
  [][(last'.op = "add" /\ last'.c \in Destroyed(heap, {last'.h})) =>
       (heap' = heap /\ last'.result = "CycleDetected")]_vars

RemoveDestroysSubtree ==
  (last'.op = "remove" /\ last'.h \in Range(Children(heap, last'.c))) =>
    \A a \in Destroyed(heap, {last'.h}) : ~NodeAlive(heap', heap[a].gid)

\* A node that is gone stays gone.
GoneStaysGone ==
  \A g \in Created : ~NodeAlive(heap, g) => ~NodeAlive(heap', g)

\* Containers hold, and draw prints, live nodes only; every live node other
\* than root has exactly one owner, a unique_ptr of the caller or one slot
\* of one container.
SingleOwner ==
  /\ \A i \in 1..Len(out) : NodeAlive(heap, out[i].gid)
  /\ \A c \in Loc : \A a \in Range(Children(heap, c)) : Live(heap, a)
  /\ \A a \in Addr :
       Live(heap, a) =>
         Cardinality(OwnerSlots(heap, a)) + (IF a \in owned THEN 1 ELSE 0) = 1

\* Supports C10: it holds of every call that returns; C10 fails only where
\* a remove inside a cycle does not run to completion.
OwnershipOneWayWhenReturned ==
  [][status' # "crashed" =>
       (RemoveDestroysSubtree /\ GoneStaysGone /\ SingleOwner')]_vars

\* C10: a remove that finds a sub-container destroys that container and
\* everything below it; a node that is gone stays gone and is in no
\* container and in no draw output; and every live node other than root
\* has exactly one owner.
C10_OwnershipOneWay ==
  [][RemoveDestroysSubtree /\ GoneStaysGone /\ SingleOwner']_vars

----------------------------------------------------------------------------
(* Claims about src/singleton.cpp *)

\* Every reference a GetInstance call has returned so far.
AllRefs == UNION {refs[t] : t \in Threads}

\* All GetInstance calls so far returned one and the same object.
OneInstance == Cardinality(AllRefs) <= 1 /\ Len(objs) <= 1

\* C11: every call to GetInstance returns the same single instance, and
\* once an Init(v) has returned, a GetValue through any reference obtained
\* from GetInstance returns the value of the most recent completed Init.
\* Stated for one calling thread, as in main.
C11_OneInstanceHoldsLastInit ==
  /\ OneInstance
  /\ (slast.op = "GetInstance" => slast.ref \in AllRefs /\ AllRefs = {slast.ref})
  /\ (slast.op = "GetValue" /\ lastInit # NoInit => slast.result = lastInit)

\* A GetValue returned after an Init had returned.
C11_Witness ==
  /\ slast.op = "GetValue"
  /\ lastInit \in Values
  /\ slast.ref \in AllRefs
  /\ Len(objs) = 1

\* The threads between acquiring and releasing mtx.
Holders ==
  {t \in Threads : spc[t] \in {"getinstance", "write", "writing", "unlock"}}

\* At most one thread holds mtx, and it is the one mtx records; so at most
\* one thread is writing value.
InitWritesExclusive ==
  /\ Cardinality(Holders) <= 1
  /\ \A t \in Holders : mtx = t
  /\ Cardinality({t \in Threads : spc[t] = "writing"}) <= 1

\* C12: under concurrent threads the writes of Init are mutually exclusive,
\* and no access to value (a write in Init or a read in GetValue) overlaps
\* a write by another thread.
C12_NoAccessOverlapsWrite ==
  /\ InitWritesExclusive
  /\ \A t \in Threads : spc[t] = "writing" => ~AccessOtherThan(t)

----------------------------------------------------------------------------
(* Claims about src/builder.cpp *)

\* What the build steps called on b since its construction or its previous
\* Build have set, over the value of a freshly reset builder.
Expected(b) ==
  IF b = "game"
  THEN [f \in DOMAIN reset |->
          IF f \in stepped[b] THEN passed[f] ELSE reset[f]]
  ELSE [seats |-> IF "seats" \in stepped[b] THEN Seats(b)
                  ELSE ValueInit(b).seats,
        tires |-> IF "tires" \in stepped[b] THEN Tires(b)
                  ELSE ValueInit(b).tires,
        color |-> IF "color" \in stepped[b] THEN "Red"
                  ELSE ValueInit(b).color]

\* The value of builder b after its reset.
ResetValue(b) == IF b = "game" THEN reset ELSE ValueInit(b)

====
